---------------------------- MODULE Spec2Model ----------------------------
(* ardexaplugin: the periodic scheduler (service.py) and the dynamic log   *)
(* writer (dynamic.py).                                                    *)
(*                                                                         *)
(* Time is discrete.  Every timer (the wait of stopped.wait, the SIGALRM   *)
(* alarm, proc.join(2), time.sleep(delay)) is a countdown that the action  *)
(* Tick decrements; an expired timer is urgent: Tick is disabled until the *)
(* step it triggers has been taken.  Steps that expire in the same instant *)
(* are taken in any order.                                                 *)
EXTENDS Integers, Sequences, FiniteSets, TLC

(* ----------------------------- bounds ---------------------------------- *)
NumTasks == 2
MaxInterval == 4
Delay == 1
MaxSignals == 1

(* ------------------------ program constants ---------------------------- *)
Grace == 2

Tasks == 1..NumTasks

\* command['frequency'] of each task: a long interval and a short one
Interval(t) == IF t = 1 THEN MaxInterval ELSE 1

Disarmed == -1

\* an invocation of the callback takes time: at least one time unit passes
\* between `start_time = time.time()` and its return or its exception
MinDuration == 1

VARIABLES
    \* --- scheduler process (run_click_command_as_a_service) ---
    mainPc,       \* "entry" | "raised" | "launch" | "append" | "sleep" |
                  \* "pause" | "final" | "returned"
    nCommands,    \* len(commands)
    installed,    \* term_handler is installed for SIGTERM and SIGINT
    nextTask,     \* index into commands of the task being launched
    cleanup,      \* the list of stop functions, one per appended task
    sleepLeft,    \* remaining time of time.sleep(delay)
    hActive,      \* term_handler is executing (as signal handler or called directly)
    hIdx,         \* position of term_handler's loop in cleanup
    hPhase,       \* position inside stop(): "call" | "join" | "terminate" | "join2"
    joinLeft,     \* remaining time of proc.join(2)
    sigCount,     \* signals delivered so far
    \* --- task processes (call_repeatedly.loop) ---
    pc,           \* "none" | "wait" | "running" | "dead"
    waitLeft,     \* remaining time of stopped.wait(wait_time)
    alarmLeft,    \* remaining time of the pending SIGALRM, Disarmed if none
    elapsed,      \* time.time() - start_time of the tick in progress
    time_taken,   \* the loop's local time_taken
    stopped,      \* the Event of each task
    \* --- observations ---
    reports,      \* errors printed to stderr for the current tick
    lastOutcome,  \* how the most recent tick ended
    lastDur,      \* how long the most recent tick took, 0 while a tick runs
    stopRequested,\* term_handler has been entered at least once
    handled,      \* term_handler has returned at least once
    stopElapsed,  \* time since the stop() call in progress was entered
    sinceStart,   \* time since the most recent tick of each task started
    \* --- log writer (dynamic.py), one log target ---
    SERVICE_MODE, \* the module's SERVICE_MODE flag
    cacheHeader,  \* SERVICE_CACHE[latest_file]['header'], None if not set
    cacheLast,    \* SERVICE_CACHE[latest_file]['last_line'], None if not set
    day,          \* the calendar day, time.strftime("%Y-%m-%d")
    now,          \* the clock read by get_datetime_str
    latest,       \* latest.csv
    archive,      \* <day>.csv, per day
    archive1,     \* <day>.csv.1, per day
    \* --- observations ---
    calls,        \* every write_dyn_log call so far, in order
    pre,          \* the files and the cached last line as they were before
                  \* the most recent call
    lastHdr,      \* header_line of the most recent append to latest.csv
    \* --- write_log step by step, one frame per writing process ---
    frame,        \* position, arguments, locals and SERVICE_CACHE of each process
    \* --- observations ---
    hdrOf,        \* the data lines appended so far, each with its header line
    recovered,    \* the step just taken completed the first write after a crash
    \* --- library functions called on their own ---
    call,         \* the function called and its arguments
    ret,          \* what the call returned or raised, Pending before it ends
    logdir,       \* the log directory of the target exists
    pidfile,      \* the content of the PID file, Absent if there is none
    chk           \* position, locals and result of each check_pidfile caller

schedVars == <<mainPc, nCommands, installed, sinceStart,
               nextTask, cleanup, sleepLeft, hActive, hIdx, hPhase,
               joinLeft, sigCount, pc, waitLeft, alarmLeft, elapsed,
               time_taken, stopped, reports, lastOutcome, lastDur,
               stopRequested,
               handled, stopElapsed>>

stepVars == <<frame, hdrOf, recovered>>

libVars == <<call, ret, logdir, pidfile, chk>>

writerVars == <<SERVICE_MODE, cacheHeader, cacheLast, day, now, latest,
                archive, archive1, calls, pre, lastHdr, stepVars, libVars>>

vars == <<schedVars, writerVars>>

mainVars == <<mainPc, nCommands, installed, nextTask, cleanup, sleepLeft>>
handlerVars == <<hActive, hIdx, hPhase, joinLeft, sigCount, stopRequested,
                 handled, stopElapsed>>
taskVars == <<pc, waitLeft, alarmLeft, elapsed, time_taken, reports,
              lastOutcome, lastDur, sinceStart>>

(* ----------------------------- helpers --------------------------------- *)

\* an except clause that lets TimeoutError through
CaughtErrorsOnly(exc) == exc = "error"

\* `except Exception` of the loop: which errors the handler of a tick catches
Caught(exc) == exc \in {"error", "timeout"}

\* the disposition of SIGTERM inside a task process
SigTermIgnored == TRUE

\* `finally: wait_time = interval - time_taken`
NextWait(t, taken) == Interval(t) - taken

\* the task the stop() call in progress belongs to
CurStop == cleanup[hIdx]

\* a check of `commands` that accepts the empty list
MissingCommandsNever(n) == FALSE

\* `if not commands`
MissingCommands(n) == n = 0

\* proc.join(timeout) that sits out its timeout whatever the process does
JoinTimesOut(t, left) == left = 0

\* proc.join(timeout) returns: the process has exited or the timeout is over
JoinDone(t, left) == pc[t] = "dead" \/ left = 0

\* stopped.wait(wait_time) that returns at once
WaitOverAtOnce(t) == pc[t] = "wait"

\* stopped.wait(wait_time) has waited for wait_time
WaitOver(t) == pc[t] = "wait" /\ waitLeft[t] = 0

\* no process launched, term_handler not running
InitTasks ==
    /\ nextTask = 1
    /\ cleanup = <<>>
    /\ sleepLeft = 0
    /\ hActive = FALSE
    /\ hIdx = 1
    /\ hPhase = "call"
    /\ joinLeft = 0
    /\ sigCount = 0
    /\ pc = [t \in Tasks |-> "none"]
    /\ waitLeft = [t \in Tasks |-> 0]
    /\ alarmLeft = [t \in Tasks |-> Disarmed]
    /\ elapsed = [t \in Tasks |-> 0]
    /\ time_taken = [t \in Tasks |-> 0]
    /\ stopped = [t \in Tasks |-> FALSE]
    /\ reports = [t \in Tasks |-> 0]
    /\ lastOutcome = [t \in Tasks |-> "none"]
    /\ lastDur = [t \in Tasks |-> 0]
    /\ stopRequested = FALSE
    /\ handled = FALSE
    /\ stopElapsed = 0
    /\ sinceStart = [t \in Tasks |-> 0]

\* run_click_command_as_a_service has installed term_handler and is about
\* to launch the first of NumTasks commands
InitSched ==
    /\ mainPc = "launch"
    /\ nCommands = NumTasks
    /\ installed = TRUE
    /\ InitTasks

\* run_click_command_as_a_service from its first line: activate_service_mode,
\* the check of `commands`, the installation of term_handler
Enter ==
    /\ mainPc = "entry"
    /\ SERVICE_MODE' = TRUE
    /\ IF MissingCommands(nCommands)
       THEN mainPc' = "raised" /\ installed' = installed
       ELSE mainPc' = "launch" /\ installed' = TRUE
    /\ UNCHANGED <<nCommands, nextTask, cleanup, sleepLeft, handlerVars,
                   taskVars, stopped>>
    /\ UNCHANGED <<cacheHeader, cacheLast, day, now, latest, archive,
                   archive1, calls, pre, lastHdr, stepVars, libVars>>

(* --------------------- run_click_command_as_a_service ------------------ *)

\* call_repeatedly up to proc.start(): the task process exists and enters
\* its loop with wait_time = interval, time_taken = 0
Launch ==
    /\ UNCHANGED writerVars
    /\ mainPc = "launch"
    /\ ~hActive
    /\ nextTask <= nCommands
    /\ pc' = [pc EXCEPT ![nextTask] = "wait"]
    /\ waitLeft' = [waitLeft EXCEPT ![nextTask] = Interval(nextTask)]
    /\ time_taken' = [time_taken EXCEPT ![nextTask] = 0]
    /\ mainPc' = "append"
    /\ UNCHANGED <<nCommands, installed, nextTask, cleanup, sleepLeft,
                   handlerVars, alarmLeft, elapsed, stopped, reports,
                   lastOutcome, lastDur, sinceStart>>

\* cleanup.append(stop), then time.sleep(delay) when delay > 0
CleanupAppend ==
    /\ UNCHANGED writerVars
    /\ mainPc = "append"
    /\ ~hActive
    /\ cleanup' = Append(cleanup, nextTask)
    /\ nextTask' = nextTask + 1
    /\ IF Delay > 0
       THEN mainPc' = "sleep" /\ sleepLeft' = Delay
       ELSE /\ mainPc' = (IF nextTask + 1 <= nCommands THEN "launch" ELSE "pause")
            /\ sleepLeft' = sleepLeft
    /\ UNCHANGED <<nCommands, installed, handlerVars, taskVars, stopped>>

\* time.sleep(delay) is over: next command, or signal.pause()
SleepDone ==
    /\ UNCHANGED writerVars
    /\ mainPc = "sleep"
    /\ ~hActive
    /\ sleepLeft = 0
    /\ mainPc' = (IF nextTask <= nCommands THEN "launch" ELSE "pause")
    /\ UNCHANGED <<nCommands, installed, nextTask, cleanup, sleepLeft,
                   handlerVars, taskVars, stopped>>

\* SIGTERM or SIGINT is delivered to the scheduler process: term_handler
\* is entered on top of whatever the main thread was doing.  Signals that
\* arrive while term_handler is executing are not modelled.
Signal ==
    /\ UNCHANGED writerVars
    /\ mainPc \in {"launch", "append", "sleep", "pause"}
    /\ ~hActive
    /\ sigCount < MaxSignals
    /\ sigCount' = sigCount + 1
    /\ hActive' = TRUE
    /\ hIdx' = 1
    /\ hPhase' = "call"
    /\ stopRequested' = TRUE
    /\ UNCHANGED <<mainVars, joinLeft, handled, stopElapsed, taskVars, stopped>>

\* stop(): stopped.set(), then proc.join(2) begins
StopSet ==
    /\ UNCHANGED writerVars
    /\ hActive
    /\ hIdx <= Len(cleanup)
    /\ hPhase = "call"
    /\ stopped' = [stopped EXCEPT ![CurStop] = TRUE]
    /\ hPhase' = "join"
    /\ joinLeft' = Grace
    /\ stopElapsed' = 0
    /\ UNCHANGED <<mainVars, hActive, hIdx, sigCount, stopRequested, handled,
                   taskVars>>

\* proc.join(2) returns: the process has exited, or the two seconds are over
JoinReturn ==
    /\ UNCHANGED writerVars
    /\ hActive
    /\ hIdx <= Len(cleanup)
    /\ hPhase = "join"
    /\ JoinDone(CurStop, joinLeft)
    /\ IF pc[CurStop] # "dead"
       THEN hPhase' = "terminate" /\ hIdx' = hIdx /\ stopElapsed' = stopElapsed
       ELSE hPhase' = "call" /\ hIdx' = hIdx + 1 /\ stopElapsed' = 0
    /\ joinLeft' = 0
    /\ UNCHANGED <<mainVars, hActive, sigCount, stopRequested,
                   handled, taskVars, stopped>>

\* proc.terminate(): SIGTERM is sent to the task process
Terminate ==
    /\ UNCHANGED writerVars
    /\ hActive
    /\ hIdx <= Len(cleanup)
    /\ hPhase = "terminate"
    /\ hPhase' = "join2"
    /\ IF SigTermIgnored
       THEN UNCHANGED <<pc, alarmLeft>>
       ELSE /\ pc' = [pc EXCEPT ![CurStop] = "dead"]
            /\ alarmLeft' = [alarmLeft EXCEPT ![CurStop] = Disarmed]
    /\ UNCHANGED <<mainVars, hActive, hIdx, joinLeft, sigCount, stopRequested,
                   handled, stopElapsed, waitLeft, elapsed, time_taken,
                   reports, lastOutcome, lastDur, sinceStart, stopped>>

\* proc.join() returns: the process has exited
Join2Return ==
    /\ UNCHANGED writerVars
    /\ hActive
    /\ hIdx <= Len(cleanup)
    /\ hPhase = "join2"
    /\ pc[CurStop] = "dead"
    /\ hPhase' = "call"
    /\ hIdx' = hIdx + 1
    /\ stopElapsed' = 0
    /\ UNCHANGED <<mainVars, hActive, joinLeft, sigCount, stopRequested,
                   handled, taskVars, stopped>>

\* term_handler returns.  Run as a signal handler it resumes the main
\* thread; signal.pause() then returns and term_handler(None, None) is
\* called; after that call the function returns.
HandlerReturn ==
    /\ UNCHANGED writerVars
    /\ hActive
    /\ hIdx > Len(cleanup)
    /\ handled' = TRUE
    /\ hIdx' = 1
    /\ hPhase' = "call"
    /\ CASE mainPc = "pause" -> mainPc' = "final" /\ hActive' = TRUE
         [] mainPc = "final" -> mainPc' = "returned" /\ hActive' = FALSE
         [] OTHER -> mainPc' = mainPc /\ hActive' = FALSE
    /\ UNCHANGED <<nCommands, installed, nextTask, cleanup, sleepLeft,
                   joinLeft, sigCount, stopRequested, stopElapsed, taskVars,
                   stopped>>

(* --------------------------- call_repeatedly.loop ---------------------- *)

\* stopped.wait(wait_time) times out with the event clear: the tick starts,
\* the alarm is armed and the callback is invoked
TickStart(t) ==
    /\ UNCHANGED writerVars
    /\ WaitOver(t)
    /\ ~stopped[t]
    /\ sinceStart' = [sinceStart EXCEPT ![t] = 0]
    /\ pc' = [pc EXCEPT ![t] = "running"]
    /\ alarmLeft' = [alarmLeft EXCEPT ![t] = Interval(t)]
    /\ elapsed' = [elapsed EXCEPT ![t] = 0]
    /\ lastDur' = [lastDur EXCEPT ![t] = 0]
    /\ reports' = [reports EXCEPT ![t] = 0]
    /\ UNCHANGED <<mainVars, handlerVars, waitLeft, time_taken, lastOutcome,
                   stopped>>

\* the callback returns: signal.alarm(0), time_taken is measured
CallbackReturn(t) ==
    /\ UNCHANGED writerVars
    /\ pc[t] = "running"
    /\ elapsed[t] >= MinDuration
    /\ alarmLeft' = [alarmLeft EXCEPT ![t] = Disarmed]
    /\ time_taken' = [time_taken EXCEPT ![t] = elapsed[t]]
    /\ waitLeft' = [waitLeft EXCEPT ![t] = NextWait(t, elapsed[t])]
    /\ pc' = [pc EXCEPT ![t] = "wait"]
    /\ lastOutcome' = [lastOutcome EXCEPT ![t] = "ok"]
    /\ elapsed' = [elapsed EXCEPT ![t] = 0]
    /\ lastDur' = [lastDur EXCEPT ![t] = IF pc[t] = "running" THEN elapsed[t] ELSE @]
    /\ UNCHANGED <<mainVars, handlerVars, reports, sinceStart, stopped>>

\* the callback raises an ordinary exception: the except clause prints it,
\* the finally clause computes wait_time from the time_taken it has
CallbackRaise(t) ==
    /\ UNCHANGED writerVars
    /\ pc[t] = "running"
    /\ elapsed[t] >= MinDuration
    /\ IF Caught("error")
       THEN /\ reports' = [reports EXCEPT ![t] = @ + 1]
            /\ waitLeft' = [waitLeft EXCEPT ![t] = NextWait(t, time_taken[t])]
            /\ pc' = [pc EXCEPT ![t] = "wait"]
            /\ alarmLeft' = alarmLeft
            /\ sinceStart' = sinceStart
       ELSE /\ pc' = [pc EXCEPT ![t] = "dead"]
            /\ alarmLeft' = [alarmLeft EXCEPT ![t] = Disarmed]
            /\ sinceStart' = [sinceStart EXCEPT ![t] = 0]
            /\ UNCHANGED <<reports, waitLeft>>
    /\ lastOutcome' = [lastOutcome EXCEPT ![t] = "error"]
    /\ elapsed' = [elapsed EXCEPT ![t] = 0]
    /\ lastDur' = [lastDur EXCEPT ![t] = IF pc[t] = "running" THEN elapsed[t] ELSE @]
    /\ UNCHANGED <<mainVars, handlerVars, time_taken, stopped>>

\* SIGALRM: alarm_handler raises TimeoutError in whatever the task process
\* is executing: inside the try block it is caught and printed, inside
\* stopped.wait it leaves the loop and the process exits
AlarmFire(t) ==
    /\ UNCHANGED writerVars
    /\ pc[t] \in {"wait", "running"}
    /\ alarmLeft[t] = 0
    /\ alarmLeft' = [alarmLeft EXCEPT ![t] = Disarmed]
    /\ IF pc[t] = "running" /\ Caught("timeout")
       THEN /\ reports' = [reports EXCEPT ![t] = @ + 1]
            /\ waitLeft' = [waitLeft EXCEPT ![t] = NextWait(t, time_taken[t])]
            /\ pc' = [pc EXCEPT ![t] = "wait"]
            /\ lastOutcome' = [lastOutcome EXCEPT ![t] = "timeout"]
            /\ sinceStart' = sinceStart
       ELSE /\ pc' = [pc EXCEPT ![t] = "dead"]
            /\ sinceStart' = [sinceStart EXCEPT ![t] = 0]
            /\ lastOutcome' = [lastOutcome EXCEPT ![t] =
                                 IF pc[t] = "running" THEN "timeout" ELSE @]
            /\ UNCHANGED <<reports, waitLeft>>
    /\ elapsed' = [elapsed EXCEPT ![t] = 0]
    /\ lastDur' = [lastDur EXCEPT ![t] = IF pc[t] = "running" THEN elapsed[t] ELSE @]
    /\ UNCHANGED <<mainVars, handlerVars, time_taken, stopped>>

\* stopped.wait returns True: the loop ends and the process exits
LoopExit(t) ==
    /\ UNCHANGED writerVars
    /\ pc[t] = "wait"
    /\ stopped[t]
    /\ pc' = [pc EXCEPT ![t] = "dead"]
    /\ alarmLeft' = [alarmLeft EXCEPT ![t] = Disarmed]
    /\ sinceStart' = [sinceStart EXCEPT ![t] = 0]
    /\ UNCHANGED <<mainVars, handlerVars, waitLeft, elapsed, time_taken,
                   reports, lastOutcome, lastDur, stopped>>

(* -------------------------------- time --------------------------------- *)

Urgent ==
    \/ ~hActive /\ mainPc \in {"launch", "append"}
    \/ ~hActive /\ mainPc = "sleep" /\ sleepLeft = 0
    \/ hActive /\ hIdx > Len(cleanup)
    \/ hActive /\ hIdx <= Len(cleanup) /\ hPhase \in {"call", "terminate"}
    \/ hActive /\ hIdx <= Len(cleanup) /\ hPhase = "join"
              /\ JoinDone(CurStop, joinLeft)
    \/ hActive /\ hIdx <= Len(cleanup) /\ hPhase = "join2" /\ pc[CurStop] = "dead"
    \/ \E t \in Tasks :
          \/ WaitOver(t)
          \/ pc[t] = "wait" /\ stopped[t]
          \/ pc[t] \in {"wait", "running"} /\ alarmLeft[t] = 0

Dec(n) == IF n > 0 THEN n - 1 ELSE n

\* some process is waiting for a time to come
TimerRunning ==
    \/ \E t \in Tasks : pc[t] \in {"wait", "running"}
    \/ mainPc = "sleep" /\ sleepLeft > 0
    \/ hActive /\ hIdx <= Len(cleanup) /\ hPhase = "join" /\ joinLeft > 0

Tick ==
    /\ UNCHANGED writerVars
    /\ ~Urgent
    /\ TimerRunning
    /\ waitLeft' = [t \in Tasks |->
                      IF pc[t] = "wait" THEN Dec(waitLeft[t]) ELSE waitLeft[t]]
    /\ alarmLeft' = [t \in Tasks |-> Dec(alarmLeft[t])]
    /\ elapsed' = [t \in Tasks |->
                      IF pc[t] = "running" THEN elapsed[t] + 1 ELSE elapsed[t]]
    /\ sinceStart' = [t \in Tasks |->
                      IF pc[t] = "running"
                           \/ (pc[t] = "wait" /\ lastOutcome[t] # "none")
                      THEN sinceStart[t] + 1 ELSE sinceStart[t]]
    /\ sleepLeft' = Dec(sleepLeft)
    /\ joinLeft' = IF hActive /\ hPhase = "join" THEN Dec(joinLeft) ELSE joinLeft
    /\ stopElapsed' = IF hActive /\ hPhase \in {"join", "join2"}
                      THEN stopElapsed + 1 ELSE stopElapsed
    /\ UNCHANGED <<mainPc, nCommands, installed,
                   nextTask, cleanup, hActive, hIdx, hPhase, sigCount,
                   stopRequested, handled, pc, time_taken, reports,
                   lastOutcome, lastDur, stopped>>

(* ======================= dynamic log writer ============================ *)

MaxWrites == 4
MaxDay == 2
\* the processes that write to the one log target, and the write_log calls
\* made to it that run to their end
NumWriters == 2
MaxCalls == 2

Procs == 1..NumWriters

Days == 1..MaxDay

\* the field schemas a reading can have, as rendered by process_header_field,
\* and the values it can carry, as rendered by clean_and_stringify_value
Headers == {"counter(integer:kWh)", "counter(integer:kWh),junk(discard)"}
Values == {"1", "2"}

None == <<>>
NoFile == [exists |-> FALSE, lines |-> <<>>]
File(ls) == [exists |-> TRUE, lines |-> ls]

\* "# Datetime(date)," + make_csv_str(...): a line is the sequence of its
\* comma-separated parts and the commas between them
HeaderLine(h) == <<"# Datetime(date)", ",", h>>

\* time.strftime('%Y-%m-%dT%H:%M:%S%z')
get_datetime_str(d, n) == ToString(d) \o "T" \o ToString(n)

\* get_datetime_str() + "," + make_csv_str(...)
DataLine(ts, v) == <<ts, ",", v>>

IsHeaderLine(l) == Len(l) >= 1 /\ l[1] = "# Datetime(date)"

\* data_line.find(','), as an index a slice starts at; without a comma the
\* slice [-1:] starts at the last element
FirstComma(l) ==
    IF \E i \in 1..Len(l) : l[i] = ","
    THEN CHOOSE i \in 1..Len(l) : l[i] = "," /\ \A j \in 1..(i - 1) : l[j] # ","
    ELSE Len(l)

SliceFrom(l, i) == SubSeq(l, i, Len(l))

\* latest.readline(): the first line, '' for an empty file
ReadLine(f) == IF Len(f.lines) = 0 THEN <<>> ELSE f.lines[1]

\* tail(latest): the last line, nothing for an empty file
tail(f) == IF Len(f.lines) = 0 THEN None ELSE f.lines[Len(f.lines)]

\* header_has_changed reading the last line of latest.csv, not the first
header_has_changed_tail(header_line, f, cached, svc) ==
    LET current0 == IF svc THEN cached ELSE None
        newCache == IF svc THEN header_line ELSE cached
    IN  IF current0 = None /\ ~f.exists
        THEN [raised |-> TRUE, changed |-> FALSE, cache |-> newCache]
        ELSE LET current == IF current0 # None THEN current0 ELSE tail(f)
             IN  [raised |-> FALSE, changed |-> header_line # current,
                  cache |-> newCache]

\* header_has_changed(header_line, latest_file): the result, the header the
\* cache holds afterwards, and whether FileNotFoundError was raised
header_has_changed(header_line, f, cached, svc) ==
    LET current0 == IF svc THEN cached ELSE None
        newCache == IF svc THEN header_line ELSE cached
    IN  IF current0 = None /\ ~f.exists
        THEN [raised |-> TRUE, changed |-> FALSE, cache |-> newCache]
        ELSE LET current == IF current0 # None THEN current0 ELSE ReadLine(f)
             IN  [raised |-> FALSE, changed |-> header_line # current,
                  cache |-> newCache]

\* data_has_changed comparing the whole lines, Datetime field included
data_has_changed_whole_line(data_line, f, cached, svc) ==
    LET last0 == IF svc THEN cached ELSE None
        newCache == IF svc THEN data_line ELSE cached
    IN  IF last0 = None /\ ~f.exists
        THEN [raised |-> FALSE, changed |-> TRUE, cache |-> newCache]
        ELSE LET last == IF last0 # None THEN last0 ELSE tail(f)
             IN  IF last = None
                 THEN [raised |-> TRUE, changed |-> FALSE, cache |-> newCache]
                 ELSE [raised |-> FALSE, changed |-> data_line # last,
                       cache |-> newCache]

\* data_has_changed(data_line, latest_file): the result, the line the cache
\* holds afterwards, and whether the comparison raised (TypeError on an
\* empty latest.csv)
data_has_changed(data_line, f, cached, svc) ==
    LET last0 == IF svc THEN cached ELSE None
        newCache == IF svc THEN data_line ELSE cached
    IN  IF last0 = None /\ ~f.exists
        THEN [raised |-> FALSE, changed |-> TRUE, cache |-> newCache]
        ELSE LET last == IF last0 # None THEN last0 ELSE tail(f)
                 first_comma == FirstComma(data_line)
             IN  IF last = None
                 THEN [raised |-> TRUE, changed |-> FALSE, cache |-> newCache]
                 ELSE [raised |-> FALSE,
                       changed |-> SliceFrom(data_line, first_comma)
                                     # SliceFrom(last, first_comma),
                       cache |-> newCache]

\* the rotation probe without the os.remove(latest_file) of a new day
RotationProbeKeepsLatest(header_line, lat, arch, arch1, cached, svc) ==
    IF ~arch.exists
    THEN [write_header |-> TRUE, latest |-> lat, archive |-> arch,
          archive1 |-> arch1, cache |-> cached]
    ELSE LET hhc == header_has_changed(header_line, lat, cached, svc)
         IN  IF hhc.raised \/ ~hhc.changed
             THEN [write_header |-> FALSE, latest |-> lat, archive |-> arch,
                   archive1 |-> arch1, cache |-> hhc.cache]
             ELSE [write_header |-> lat.exists, latest |-> NoFile,
                   archive |-> NoFile, archive1 |-> arch,
                   cache |-> hhc.cache]

\* the try block of write_log: the rotation probe.  Yields write_header and
\* the files and cache it leaves behind.
RotationProbe(header_line, lat, arch, arch1, cached, svc) ==
    IF ~arch.exists
    THEN \* os.remove(latest_file); FileNotFoundError is passed over
         [write_header |-> TRUE, latest |-> NoFile, archive |-> arch,
          archive1 |-> arch1, cache |-> cached]
    ELSE LET hhc == header_has_changed(header_line, lat, cached, svc)
         IN  IF hhc.raised \/ ~hhc.changed
             THEN [write_header |-> FALSE, latest |-> lat, archive |-> arch,
                   archive1 |-> arch1, cache |-> hhc.cache]
             ELSE \* os.rename(archive, archive + ".1"); os.remove(latest)
                  [write_header |-> lat.exists, latest |-> NoFile,
                   archive |-> NoFile, archive1 |-> arch,
                   cache |-> hhc.cache]

\* open(path, "a"); write(header_line) if write_header; write(data_line)
AppendTo(f, write_header, header_line, data_line) ==
    File(f.lines \o (IF write_header THEN <<header_line>> ELSE <<>>)
                 \o <<data_line>>)

\* a process that is not inside write_log: no call made, SERVICE_CACHE empty
IdleFrame ==
    [pc |-> "idle", header_line |-> None, data_line |-> None,
     changes_only |-> FALSE, day |-> 0, write_header |-> FALSE,
     cacheHeader |-> None, cacheLast |-> None, count |-> 0,
     crashed |-> FALSE, result |-> "none"]

\* the PID file does not exist
Absent == "absent"

\* a call that has not ended, one that returned v, one that raised e
Pending == [state |-> "pending"]
Returned(v) == [state |-> "returned", value |-> v]
Raised(e) == [state |-> "raised", error |-> e]

\* a process that has not called check_pidfile
IdleCheck == [pc |-> "idle", pid |-> 0, result |-> "none"]

\* the callers of check_pidfile
NumCheckers == 2
Checkers == 1..NumCheckers

\* no library function is being called on its own
InitLib ==
    /\ call = [fn |-> "none"]
    /\ ret = Pending
    /\ logdir = FALSE
    /\ pidfile = Absent
    /\ chk = [p \in Checkers |-> IdleCheck]

\* a fresh log target, an empty SERVICE_CACHE
InitFiles ==
    /\ cacheHeader = None
    /\ cacheLast = None
    /\ day = 1
    /\ now = 0
    /\ latest = NoFile
    /\ archive = [d \in Days |-> NoFile]
    /\ archive1 = [d \in Days |-> NoFile]
    /\ calls = <<>>
    /\ pre = [latest |-> NoFile, archive |-> [d \in Days |-> NoFile],
              archive1 |-> [d \in Days |-> NoFile], cacheLast |-> None]
    /\ lastHdr = None
    /\ frame = [p \in Procs |-> IdleFrame]
    /\ hdrOf = {}
    /\ recovered = FALSE

InitWriter == InitFiles /\ InitLib

\* write_log(log_directory, header_line, data_line, changes_only) from
\* entry to return: what it does to the files and to SERVICE_CACHE.  h and v
\* are the schema and the value the lines were rendered from.
WriteLogBody(header_line, data_line, h, v, changes_only) ==
    LET probe == RotationProbe(header_line, latest, archive[day],
                               archive1[day], cacheHeader, SERVICE_MODE)
        dhc == IF changes_only
               THEN data_has_changed(data_line, probe.latest, cacheLast,
                                     SERVICE_MODE)
               ELSE [raised |-> FALSE, changed |-> TRUE, cache |-> cacheLast]
        result == IF dhc.raised THEN "raised"
                  ELSE IF ~dhc.changed THEN "skipped" ELSE "written"
    IN  /\ cacheHeader' = probe.cache
        /\ cacheLast' = dhc.cache
        /\ archive1' = [archive1 EXCEPT ![day] = probe.archive1]
        /\ IF result = "written"
           THEN /\ archive' = [archive EXCEPT ![day] =
                     AppendTo(probe.archive, probe.write_header,
                              header_line, data_line)]
                /\ latest' = AppendTo(probe.latest, probe.write_header,
                                      header_line, data_line)
                /\ lastHdr' = header_line
           ELSE /\ archive' = [archive EXCEPT ![day] = probe.archive]
                /\ latest' = probe.latest
                /\ lastHdr' = lastHdr
        /\ calls' = Append(calls, [h |-> h, v |-> v, co |-> changes_only,
                                   day |-> day, header_line |-> header_line,
                                   data_line |-> data_line,
                                   cmpLatest |-> probe.latest.exists,
                                   result |-> result])
        /\ pre' = [latest |-> latest, archive |-> archive,
                   archive1 |-> archive1, cacheLast |-> cacheLast]

\* write_dyn_log(output_directory, table, source, output, changes_only) with
\* a reading of schema h and value v: write_log from entry to return
WriteLog(h, v, changes_only) ==
    /\ UNCHANGED schedVars
    /\ Len(calls) < MaxWrites
    /\ WriteLogBody(HeaderLine(h), DataLine(get_datetime_str(day, now), v),
                    h, v, changes_only)
    /\ now' = now + 1
    /\ UNCHANGED <<SERVICE_MODE, day, stepVars, libVars>>

\* where an append of write_log can fail: open(archive_file, "a") or a write
\* to it, before anything is written; open(latest_file, "a") or a write to
\* it, after the archive has its lines
FailurePoints == {"archive", "latest"}

\* write_dyn_log with a reading of schema h and value v, the filesystem
\* refusing an append (permission denied, disk full): write_log from entry
\* to the OSError leaving it
WriteLogIOError(h, v, changes_only, at) ==
    /\ UNCHANGED schedVars
    /\ Len(calls) < MaxWrites
    /\ LET header_line == HeaderLine(h)
           data_line == DataLine(get_datetime_str(day, now), v)
           probe == RotationProbe(header_line, latest, archive[day],
                                  archive1[day], cacheHeader, SERVICE_MODE)
           dhc == IF changes_only
                  THEN data_has_changed(data_line, probe.latest, cacheLast,
                                        SERVICE_MODE)
                  ELSE [raised |-> FALSE, changed |-> TRUE, cache |-> cacheLast]
       IN  \* the appends are reached
           /\ ~dhc.raised
           /\ dhc.changed
           /\ cacheHeader' = probe.cache
           /\ cacheLast' = dhc.cache
           /\ archive1' = [archive1 EXCEPT ![day] = probe.archive1]
           /\ archive' = [archive EXCEPT ![day] =
                  IF at = "archive" THEN probe.archive
                  ELSE AppendTo(probe.archive, probe.write_header,
                                header_line, data_line)]
           /\ latest' = probe.latest
           /\ lastHdr' = lastHdr
           /\ calls' = Append(calls, [h |-> h, v |-> v, co |-> changes_only,
                                      day |-> day, header_line |-> header_line,
                                      data_line |-> data_line,
                                      cmpLatest |-> probe.latest.exists,
                                      result |-> "ioerror"])
           /\ pre' = [latest |-> latest, archive |-> archive,
                      archive1 |-> archive1, cacheLast |-> cacheLast]
    /\ now' = now + 1
    /\ UNCHANGED <<SERVICE_MODE, day, stepVars, libVars>>

\* midnight: time.strftime("%Y-%m-%d") names the next day
NewDay ==
    /\ UNCHANGED schedVars
    /\ day < MaxDay
    /\ day' = day + 1
    /\ UNCHANGED <<SERVICE_MODE, cacheHeader, cacheLast, now, latest, archive,
                   archive1, calls, pre, lastHdr, stepVars, libVars>>

\* a plugin that writes readings: run once per reading (SERVICE_MODE off) or
\* as a service (activate_service_mode)
WriterInit == InitSched /\ InitWriter /\ SERVICE_MODE \in BOOLEAN

WriterNext ==
    \/ \E h \in Headers, v \in Values, co \in BOOLEAN : WriteLog(h, v, co)
    \/ NewDay

WriterSpec == WriterInit /\ [][WriterNext]_vars

\* a service that writes changed readings to a filesystem that can refuse an
\* append
FaultyInit == InitSched /\ InitWriter /\ SERVICE_MODE = TRUE

FaultyNext ==
    \/ \E h \in Headers, v \in Values : WriteLog(h, v, TRUE)
    \/ \E h \in Headers, v \in Values, at \in FailurePoints :
           WriteLogIOError(h, v, TRUE, at)
    \/ NewDay

FaultySpec == FaultyInit /\ [][FaultyNext]_vars

(* ----------------- write_log, one filesystem step at a time ------------ *)

\* what a step of process p leaves unchanged besides the files it touches
StepFrame(p) ==
    /\ UNCHANGED schedVars
    /\ UNCHANGED <<SERVICE_MODE, cacheHeader, cacheLast, day, calls, pre,
                   lastHdr, libVars>>

\* the calls made so far by processes 1..n that were not cut short
RECURSIVE CallsMade(_)
CallsMade(n) == IF n = 0 THEN 0 ELSE frame[n].count + CallsMade(n - 1)

\* write_dyn_log is called: header_line and data_line are rendered,
\* write_header = False, get_output_files names today's archive
WlCall(p, h, v, co) ==
    /\ StepFrame(p)
    /\ frame[p].pc = "idle"
    /\ CallsMade(NumWriters) < MaxCalls
    /\ frame' = [frame EXCEPT ![p].pc = "isfile",
                              ![p].header_line = HeaderLine(h),
                              ![p].data_line =
                                  DataLine(get_datetime_str(day, now), v),
                              ![p].changes_only = co,
                              ![p].day = day,
                              ![p].write_header = FALSE,
                              ![p].count = @ + 1,
                              ![p].result = "none"]
    /\ now' = now + 1
    /\ recovered' = FALSE
    /\ UNCHANGED <<latest, archive, archive1, hdrOf>>

\* `if not os.path.isfile(archive_file)`: write_header = True
WlIsFile(p) ==
    /\ StepFrame(p)
    /\ frame[p].pc = "isfile"
    /\ IF ~archive[frame[p].day].exists
       THEN frame' = [frame EXCEPT ![p].pc = "remove_new",
                                   ![p].write_header = TRUE]
       ELSE frame' = [frame EXCEPT ![p].pc = "header"]
    /\ recovered' = FALSE
    /\ UNCHANGED <<now, latest, archive, archive1, hdrOf>>

\* os.remove(latest_file) of the new-day branch; FileNotFoundError is
\* passed over
WlRemoveNew(p) ==
    /\ StepFrame(p)
    /\ frame[p].pc = "remove_new"
    /\ latest' = NoFile
    /\ frame' = [frame EXCEPT ![p].pc = "data"]
    /\ recovered' = FALSE
    /\ UNCHANGED <<now, archive, archive1, hdrOf>>

\* header_has_changed(header_line, latest_file)
WlHeader(p) ==
    /\ StepFrame(p)
    /\ frame[p].pc = "header"
    /\ LET hhc == header_has_changed(frame[p].header_line, latest,
                                     frame[p].cacheHeader, SERVICE_MODE)
       IN  frame' = [frame EXCEPT
                       ![p].cacheHeader = hhc.cache,
                       ![p].pc = IF hhc.raised \/ ~hhc.changed
                                 THEN "data" ELSE "rename"]
    /\ recovered' = FALSE
    /\ UNCHANGED <<now, latest, archive, archive1, hdrOf>>

\* os.rename(archive_file, archive_file + ".1"); FileNotFoundError leaves
\* the try block
WlRename(p) ==
    /\ StepFrame(p)
    /\ frame[p].pc = "rename"
    /\ LET d == frame[p].day
       IN  IF archive[d].exists
           THEN /\ archive1' = [archive1 EXCEPT ![d] = archive[d]]
                /\ archive' = [archive EXCEPT ![d] = NoFile]
                /\ frame' = [frame EXCEPT ![p].pc = "remove_rot"]
           ELSE /\ frame' = [frame EXCEPT ![p].pc = "data"]
                /\ UNCHANGED <<archive, archive1>>
    /\ recovered' = FALSE
    /\ UNCHANGED <<now, latest, hdrOf>>

\* os.remove(latest_file) of the rotation, then write_header = True;
\* FileNotFoundError leaves the try block before the assignment
WlRemoveRot(p) ==
    /\ StepFrame(p)
    /\ frame[p].pc = "remove_rot"
    /\ IF latest.exists
       THEN /\ latest' = NoFile
            /\ frame' = [frame EXCEPT ![p].pc = "data",
                                      ![p].write_header = TRUE]
       ELSE /\ latest' = latest
            /\ frame' = [frame EXCEPT ![p].pc = "data"]
    /\ recovered' = FALSE
    /\ UNCHANGED <<now, archive, archive1, hdrOf>>

\* `if changes_only and not data_has_changed(data_line, latest_file): return`
WlData(p) ==
    /\ StepFrame(p)
    /\ frame[p].pc = "data"
    /\ IF frame[p].changes_only
       THEN LET dhc == data_has_changed(frame[p].data_line, latest,
                                        frame[p].cacheLast, SERVICE_MODE)
            IN  frame' = [frame EXCEPT
                            ![p].cacheLast = dhc.cache,
                            ![p].pc = IF dhc.raised \/ ~dhc.changed
                                      THEN "idle" ELSE "open_archive",
                            ![p].result = IF dhc.raised THEN "raised"
                                          ELSE IF ~dhc.changed THEN "skipped"
                                          ELSE "none"]
       ELSE frame' = [frame EXCEPT ![p].pc = "open_archive"]
    /\ recovered' = FALSE
    /\ UNCHANGED <<now, latest, archive, archive1, hdrOf>>

\* open(archive_file, "a"): the file exists from here on
WlOpenArchive(p) ==
    /\ StepFrame(p)
    /\ frame[p].pc = "open_archive"
    /\ archive' = [archive EXCEPT ![frame[p].day] = File(@.lines)]
    /\ frame' = [frame EXCEPT ![p].pc = "write_archive"]
    /\ recovered' = FALSE
    /\ UNCHANGED <<now, latest, archive1, hdrOf>>

\* the with block of the archive ends: header line (if write_header) and
\* data line reach the end of the file
WlWriteArchive(p) ==
    /\ StepFrame(p)
    /\ frame[p].pc = "write_archive"
    /\ archive' = [archive EXCEPT ![frame[p].day] =
                      AppendTo(@, frame[p].write_header,
                               frame[p].header_line, frame[p].data_line)]
    /\ hdrOf' = hdrOf \cup {<<frame[p].data_line, frame[p].header_line>>}
    /\ frame' = [frame EXCEPT ![p].pc = "open_latest"]
    /\ recovered' = FALSE
    /\ UNCHANGED <<now, latest, archive1>>

\* open(latest_file, "a")
WlOpenLatest(p) ==
    /\ StepFrame(p)
    /\ frame[p].pc = "open_latest"
    /\ latest' = File(latest.lines)
    /\ frame' = [frame EXCEPT ![p].pc = "write_latest"]
    /\ recovered' = FALSE
    /\ UNCHANGED <<now, archive, archive1, hdrOf>>

\* the with block of latest.csv ends; write_log returns
WlWriteLatest(p) ==
    /\ StepFrame(p)
    /\ frame[p].pc = "write_latest"
    /\ latest' = AppendTo(latest, frame[p].write_header,
                          frame[p].header_line, frame[p].data_line)
    /\ frame' = [frame EXCEPT ![p].pc = "idle", ![p].result = "written"]
    /\ recovered' = frame[p].crashed
    /\ UNCHANGED <<now, archive, archive1, hdrOf>>

\* the process dies inside write_log, between two of its filesystem steps
\* (not in the middle of an append); the process started in its place has
\* an empty SERVICE_CACHE.  One death per run is followed.
WlCrash(p) ==
    /\ StepFrame(p)
    /\ frame[p].pc \notin {"idle", "write_archive", "write_latest"}
    /\ \A q \in Procs : ~frame[q].crashed
    /\ frame' = [frame EXCEPT ![p] = [IdleFrame EXCEPT !.crashed = TRUE,
                                                      !.count = frame[p].count - 1]]
    /\ recovered' = FALSE
    /\ UNCHANGED <<now, latest, archive, archive1, hdrOf>>

\* one plugin process writes to the target; it may die inside write_log and
\* the process started in its place goes on writing
CrashNext ==
    \/ \E h \in Headers, v \in Values, co \in BOOLEAN : WlCall(1, h, v, co)
    \/ WlIsFile(1)
    \/ WlRemoveNew(1)
    \/ WlHeader(1)
    \/ WlRename(1)
    \/ WlRemoveRot(1)
    \/ WlData(1)
    \/ WlOpenArchive(1)
    \/ WlWriteArchive(1)
    \/ WlOpenLatest(1)
    \/ WlWriteLatest(1)
    \/ WlCrash(1)

CrashSpec == WriterInit /\ [][CrashNext]_vars

\* the task processes of one service write to one log target, their steps
\* interleaved as the operating system schedules them
ConcurrentNext ==
    \/ \E p \in Procs, h \in Headers, v \in Values, co \in BOOLEAN :
          WlCall(p, h, v, co)
    \/ \E p \in Procs : WlIsFile(p)
    \/ \E p \in Procs : WlRemoveNew(p)
    \/ \E p \in Procs : WlHeader(p)
    \/ \E p \in Procs : WlRename(p)
    \/ \E p \in Procs : WlRemoveRot(p)
    \/ \E p \in Procs : WlData(p)
    \/ \E p \in Procs : WlOpenArchive(p)
    \/ \E p \in Procs : WlWriteArchive(p)
    \/ \E p \in Procs : WlOpenLatest(p)
    \/ \E p \in Procs : WlWriteLatest(p)

ConcurrentSpec == WriterInit /\ [][ConcurrentNext]_vars

\* run_click_command_as_a_service: activate_service_mode(), the handlers
\* are installed, no task is launched yet
Init == InitSched /\ InitWriter /\ SERVICE_MODE = TRUE

Next ==
    \/ Launch
    \/ CleanupAppend
    \/ SleepDone
    \/ Signal
    \/ StopSet
    \/ JoinReturn
    \/ Terminate
    \/ Join2Return
    \/ HandlerReturn
    \/ \E t \in Tasks : TickStart(t)
    \/ \E t \in Tasks : CallbackReturn(t)
    \/ \E t \in Tasks : CallbackRaise(t)
    \/ \E t \in Tasks : AlarmFire(t)
    \/ \E t \in Tasks : LoopExit(t)
    \/ Tick

Spec == Init /\ [][Next]_vars

\* The steps the program takes on its own: the processes are scheduled by
\* the operating system and time passes.  The environment is not obliged to
\* send a signal and a callback is not obliged to return or raise before
\* its alarm, so Signal, CallbackReturn and CallbackRaise are not included.
\* Tick is enabled only when no step of the program is due, so weak
\* fairness of the disjunction makes every due step happen before time
\* moves on.
Progress ==
    \/ Launch \/ CleanupAppend \/ SleepDone
    \/ StopSet \/ JoinReturn \/ Terminate \/ Join2Return \/ HandlerReturn
    \/ \E t \in Tasks : TickStart(t) \/ AlarmFire(t) \/ LoopExit(t)
    \/ Tick

Fairness == WF_vars(Progress)

FairSpec == Init /\ [][Next]_vars /\ Fairness

\* The scheduler while no terminate or interrupt signal arrives: the tasks
\* are launched and tick, term_handler is never entered.
QuietNext ==
    \/ Launch
    \/ CleanupAppend
    \/ SleepDone
    \/ \E t \in Tasks : TickStart(t)
    \/ \E t \in Tasks : CallbackReturn(t)
    \/ \E t \in Tasks : CallbackRaise(t)
    \/ \E t \in Tasks : AlarmFire(t)
    \/ Tick

QuietFairSpec == Init /\ [][QuietNext]_vars /\ WF_vars(Progress)

\* run_click_command_as_a_service called with any list of commands, the
\* empty one included
ServiceInit ==
    /\ mainPc = "entry"
    /\ nCommands \in 0..NumTasks
    /\ installed = FALSE
    /\ InitTasks
    /\ InitWriter
    /\ SERVICE_MODE = FALSE

ServiceNext == Enter \/ Next

ServiceSpec == ServiceInit /\ [][ServiceNext]_vars

TypeOK ==
    /\ mainPc \in {"entry", "raised", "launch", "append", "sleep", "pause",
                   "final", "returned"}
    /\ \A t \in Tasks : /\ pc[t] \in {"none", "wait", "running", "dead"}
                        /\ waitLeft[t] \in 0..MaxInterval
                        /\ alarmLeft[t] \in -1..MaxInterval
                        /\ elapsed[t] \in 0..MaxInterval
                        /\ time_taken[t] \in 0..MaxInterval

(* ===================== library functions (__init__.py) ================== *)

\* what a call of a library function leaves alone
LibFrame ==
    /\ UNCHANGED schedVars
    /\ UNCHANGED <<SERVICE_MODE, cacheHeader, cacheLast, day, now, latest,
                   archive, archive1, calls, pre, lastHdr, stepVars>>

(* ----------------------- convert_words_to_uint ------------------------- *)

\* the 16-bit words a Modbus register read hands over: the high word
\* unsigned, the low word unsigned or as a signed 16-bit number
MaxWord == 2
HighWords == 0..MaxWord \cup {32768, 65535}
LowWords == (0 - MaxWord)..MaxWord \cup {-32768, -32767, 32767, 32768, 65535}

\* a | b on non-negative integers
RECURSIVE BitOr(_, _)
BitOr(a, b) ==
    IF a = 0 THEN b
    ELSE IF b = 0 THEN a
    ELSE (IF a % 2 = 1 \/ b % 2 = 1 THEN 1 ELSE 0)
            + 2 * BitOr(a \div 2, b \div 2)

Abs(n) == IF n < 0 THEN 0 - n ELSE n

\* `if low_num < 0: low_num = abs(low_num) + 2**15`
LowNum(low_num) ==
    IF low_num < 0 THEN Abs(low_num) + 32768 ELSE low_num

\* A number of up to 33 bits is written as its two digits to the base
\* 2^16, <<upper, lower>> standing for upper * 65536 + lower.
\* (int(high_word) << 16) | low_num: the bits of low_num from bit 16 up are
\* or-ed into the upper digit
ShiftOr(high_word, low_num) ==
    <<BitOr(high_word, low_num \div 65536), low_num % 65536>>

\* convert_words_to_uint(high_word, low_word)
convert_words_to_uint(high_word, low_word) ==
    <<ShiftOr(high_word, LowNum(low_word)), TRUE>>

\* convert_int32(high_word, low_word)
convert_int32(high_word, low_word) ==
    convert_words_to_uint(high_word, low_word)

ConvertCalls ==
    [fn : {"convert_words_to_uint", "convert_int32"},
     high_word : HighWords, low_word : LowWords]

ConvertWords ==
    /\ LibFrame
    /\ call.fn = "convert_words_to_uint"
    /\ ret = Pending
    /\ ret' = Returned(convert_words_to_uint(call.high_word, call.low_word))
    /\ UNCHANGED <<call, logdir, pidfile, chk>>

ConvertInt32 ==
    /\ LibFrame
    /\ call.fn = "convert_int32"
    /\ ret = Pending
    /\ ret' = Returned(convert_int32(call.high_word, call.low_word))
    /\ UNCHANGED <<call, logdir, pidfile, chk>>

(* --------------------------- parse_address_list ------------------------ *)

\* address strings: sequences of characters, up to MaxAddrLen long
MaxAddrLen == 5
AddrChars == {"1", "2", ",", "-"}
AddrStrings == UNION {[1..n -> AddrChars] : n \in 0..MaxAddrLen}

\* str.split(sep): the pieces between the separators, empty pieces included
RECURSIVE Split(_, _)
Split(str, sep) ==
    IF \E i \in 1..Len(str) : str[i] = sep
    THEN LET i == CHOOSE k \in 1..Len(str) :
                      str[k] = sep /\ \A j \in 1..(k - 1) : str[j] # sep
         IN  <<SubSeq(str, 1, i - 1)>>
                 \o Split(SubSeq(str, i + 1, Len(str)), sep)
    ELSE <<str>>

Digit(c) == IF c = "1" THEN 1 ELSE 2

\* the strings int() accepts
IsNumber(tok) ==
    Len(tok) >= 1 /\ \A i \in 1..Len(tok) : tok[i] \in {"1", "2"}

\* int(tok)
RECURSIVE ToInt(_)
ToInt(tok) ==
    IF Len(tok) = 0 THEN 0
    ELSE 10 * ToInt(SubSeq(tok, 1, Len(tok) - 1)) + Digit(tok[Len(tok)])

\* range(start, end): the upper end left out
RangeExclusive(start, end) ==
    IF end <= start THEN <<>> ELSE [i \in 1..(end - start) |-> start + i - 1]

\* range(start, end + 1)
RangeInclusive(start, end) ==
    IF end < start THEN <<>> ELSE [i \in 1..(end - start + 1) |-> start + i - 1]

\* the body of the loop for one addr: what it yields, or which ValueError
\* it raises
AddrElem(addr) ==
    LET elem == Split(addr, "-")
    IN  IF Len(elem) = 1
        THEN IF IsNumber(elem[1]) THEN Returned(<<ToInt(elem[1])>>)
             ELSE Raised("invalid literal")
        ELSE IF Len(elem) = 2
        THEN IF IsNumber(elem[1]) /\ IsNumber(elem[2])
             THEN Returned(RangeInclusive(ToInt(elem[1]), ToInt(elem[2])))
             ELSE Raised("invalid literal")
        ELSE Raised("format error")

\* the generator run to its end over the addrs still to come, `sofar`
\* already yielded
RECURSIVE AddrLoop(_, _)
AddrLoop(addrs, sofar) ==
    IF Len(addrs) = 0 THEN Returned(sofar)
    ELSE LET r == AddrElem(Head(addrs))
         IN  IF r.state = "raised" THEN r
             ELSE AddrLoop(Tail(addrs), sofar \o r.value)

\* list(parse_address_list(addrs))
parse_address_list(addrs) == AddrLoop(Split(addrs, ","), <<>>)

AddressCalls == [fn : {"parse_address_list"}, addrs : AddrStrings]

ParseAddressList ==
    /\ LibFrame
    /\ call.fn = "parse_address_list"
    /\ ret = Pending
    /\ ret' = parse_address_list(call.addrs)
    /\ UNCHANGED <<call, logdir, pidfile, chk>>


(* --------------------------- process_header_field ---------------------- *)

\* A declared type is a sequence of characters.  The spellings the code
\* knows, in lower case:
KnownTypes ==
    {<<"i", "n", "t">>,
     <<"i", "n", "t", "e", "g", "e", "r">>,
     <<"f", "l", "o", "a", "t">>,
     <<"d", "e", "c", "i", "m", "a", "l">>,
     <<"r", "e", "a", "l">>,
     <<"f", "r", "e", "a", "l">>,
     <<"d", "o", "u", "b", "l", "e">>,
     <<"b", "o", "o", "l">>,
     <<"b", "o", "o", "l", "e", "a", "n">>,
     <<"d", "a", "t", "e">>,
     <<"d", "i", "s", "c", "a", "r", "d">>,
     <<"s", "t", "r", "i", "n", "g">>,
     <<"k", "e", "y", "w", "o", "r", "d">>}

\* spellings that are no type
OtherTypes ==
    {<<"t", "e", "x", "t">>,
     <<"n", "u", "m", "b", "e", "r">>,
     <<"i", "n", "t", "e", "g", "e">>,
     <<"i", "n", "t", "e", "g", "e", "r", "r">>,
     <<>>}

\* the lower-case letter of each upper-case letter used
LowerOf ==
    "A" :> "a" @@ "B" :> "b" @@ "C" :> "c" @@ "D" :> "d" @@
    "E" :> "e" @@ "F" :> "f" @@ "G" :> "g" @@ "I" :> "i" @@
    "K" :> "k" @@ "L" :> "l" @@ "M" :> "m" @@ "N" :> "n" @@
    "O" :> "o" @@ "R" :> "r" @@ "S" :> "s" @@ "T" :> "t" @@
    "U" :> "u" @@ "W" :> "w" @@ "X" :> "x" @@ "Y" :> "y"

\* c.lower() of one character
LowerChar(c) == IF c \in DOMAIN LowerOf THEN LowerOf[c] ELSE c

\* c.upper() of one character
UpperChar(c) ==
    IF \E u \in DOMAIN LowerOf : LowerOf[u] = c
    THEN CHOOSE u \in DOMAIN LowerOf : LowerOf[u] = c
    ELSE c

\* str.lower()
Lower(w) == [i \in 1..Len(w) |-> LowerChar(w[i])]

\* str.upper() and str.capitalize()
Upper(w) == [i \in 1..Len(w) |-> UpperChar(w[i])]
Capitalize(w) == [i \in 1..Len(w) |-> IF i = 1 THEN UpperChar(w[i]) ELSE w[i]]

\* the declared types a plugin may pass: every spelling in lower case, in
\* upper case and capitalized
DeclaredTypes ==
    LET base == KnownTypes \cup OtherTypes
    IN  base \cup {Upper(w) : w \in base} \cup {Capitalize(w) : w \in base}

\* no canonical type
NoType == "None"

\* get_ardexa_field_type comparing the declared type as it is spelled
get_ardexa_field_type_cased(field_type) ==
    LET t == field_type
    IN  IF t \in {<<"i", "n", "t">>, <<"i", "n", "t", "e", "g", "e", "r">>}
        THEN "integer"
        ELSE IF t \in {<<"f", "l", "o", "a", "t">>,
                       <<"d", "e", "c", "i", "m", "a", "l">>,
                       <<"r", "e", "a", "l">>, <<"f", "r", "e", "a", "l">>,
                       <<"d", "o", "u", "b", "l", "e">>}
        THEN "decimal"
        ELSE IF t \in {<<"b", "o", "o", "l">>,
                       <<"b", "o", "o", "l", "e", "a", "n">>}
        THEN "bool"
        ELSE IF t = <<"d", "a", "t", "e">> THEN "date"
        ELSE IF t = <<"d", "i", "s", "c", "a", "r", "d">> THEN "discard"
        ELSE IF t \in {<<"s", "t", "r", "i", "n", "g">>,
                       <<"k", "e", "y", "w", "o", "r", "d">>}
        THEN "keyword"
        ELSE NoType

\* get_ardexa_field_type(field_type)
get_ardexa_field_type(field_type) ==
    LET t == Lower(field_type)
    IN  IF t \in {<<"i", "n", "t">>, <<"i", "n", "t", "e", "g", "e", "r">>}
        THEN "integer"
        ELSE IF t \in {<<"f", "l", "o", "a", "t">>,
                       <<"d", "e", "c", "i", "m", "a", "l">>,
                       <<"r", "e", "a", "l">>, <<"f", "r", "e", "a", "l">>,
                       <<"d", "o", "u", "b", "l", "e">>}
        THEN "decimal"
        ELSE IF t \in {<<"b", "o", "o", "l">>,
                       <<"b", "o", "o", "l", "e", "a", "n">>}
        THEN "bool"
        ELSE IF t = <<"d", "a", "t", "e">> THEN "date"
        ELSE IF t = <<"d", "i", "s", "c", "a", "r", "d">> THEN "discard"
        ELSE IF t \in {<<"s", "t", "r", "i", "n", "g">>,
                       <<"k", "e", "y", "w", "o", "r", "d">>}
        THEN "keyword"
        ELSE NoType

\* A field descriptor is a bare string, a dict with name, type and perhaps
\* units, or some other object.  units is "absent" when the dict has no such
\* key and "None" when the key holds None.
FieldNames == {"counter", "gate open"}
Units == {"absent", "None", "kWh"}
Fields ==
    [kind : {"str"}, text : {"counter(integer:kWh)", "plain"}]
        \cup [kind : {"dict"}, name : FieldNames, type : DeclaredTypes,
              units : Units]
        \cup [kind : {"other"}]

\* process_header_field(field): the rendered text as the sequence of its
\* parts
process_header_field(field) ==
    IF field.kind = "str" THEN Returned(<<field.text>>)
    ELSE IF field.kind # "dict" THEN Raised("Unknown header value")
    ELSE LET ardexa_type == get_ardexa_field_type(field.type)
         IN  IF ardexa_type = NoType THEN Raised("Unknown field type")
             ELSE IF field.units \notin {"absent", "None"}
             THEN Returned(<<field.name, "(", ardexa_type, ":", field.units,
                             ")">>)
             ELSE Returned(<<field.name, "(", ardexa_type, ")">>)

HeaderFieldCalls == [fn : {"process_header_field"}, field : Fields]

ProcessHeaderField ==
    /\ LibFrame
    /\ call.fn = "process_header_field"
    /\ ret = Pending
    /\ ret' = process_header_field(call.field)
    /\ UNCHANGED <<call, logdir, pidfile, chk>>

(* ------------------------------ check_pidfile -------------------------- *)

\* os.getpid() of each caller; none of them exits
PidOf(p) == 10 + p

\* a PID no process has, and the PID of a running process that is none of
\* the callers
StalePid == 1
ForeignPid == 2

\* what the PID file can hold when the first caller arrives: nothing
\* (absent), no text, text that is no number, a PID
InitialPidfiles ==
    {Absent, "", "garbage", ToString(StalePid), ToString(ForeignPid)}

AllPids == {StalePid, ForeignPid} \cup {PidOf(p) : p \in Checkers}

\* int(text) succeeds
IsPidText(text) == \E n \in AllPids : ToString(n) = text

\* int(text)
PidText(text) == CHOOSE n \in AllPids : ToString(n) = text

\* check_pid(pid): os.kill(pid, 0) succeeds for a running process
check_pid(pid) == pid = ForeignPid \/ \E p \in Checkers : pid = PidOf(p)

\* what a step of check_pidfile leaves unchanged besides chk and the PID file
PidFrame ==
    /\ LibFrame
    /\ UNCHANGED <<call, ret, logdir>>

\* process p calls check_pidfile(pidfile)
ChkCall(p) ==
    /\ PidFrame
    /\ chk[p].pc = "idle"
    /\ chk[p].result = "none"
    /\ chk' = [chk EXCEPT ![p].pc = "isfile"]
    /\ UNCHANGED pidfile

\* if os.path.isfile(pidfile):
ChkIsFile(p) ==
    /\ PidFrame
    /\ chk[p].pc = "isfile"
    /\ chk' = [chk EXCEPT ![p].pc = IF pidfile # Absent THEN "read"
                                    ELSE "open_w"]
    /\ UNCHANGED pidfile

\* open(pidfile, 'r') and int(pidfile_handle.read()), then check_pid(pid); a
\* file removed since isfile makes open raise FileNotFoundError out of the
\* function, text that is no number is passed over by the bare except
ChkRead(p) ==
    /\ PidFrame
    /\ chk[p].pc = "read"
    /\ chk' = [chk EXCEPT ![p] =
          IF pidfile = Absent
          THEN [pc |-> "done", pid |-> 0, result |-> "raised"]
          ELSE IF ~IsPidText(pidfile)
          THEN [pc |-> "unlink", pid |-> 0, result |-> "none"]
          ELSE IF check_pid(PidText(pidfile))
          THEN [pc |-> "done", pid |-> PidText(pidfile), result |-> "true"]
          ELSE [pc |-> "unlink", pid |-> PidText(pidfile),
                result |-> "none"]]
    /\ UNCHANGED pidfile

\* os.unlink(pidfile); FileNotFoundError leaves the function when another
\* process has removed the file
ChkUnlink(p) ==
    /\ PidFrame
    /\ chk[p].pc = "unlink"
    /\ IF pidfile = Absent
       THEN /\ chk' = [chk EXCEPT ![p].pc = "done", ![p].result = "raised"]
            /\ UNCHANGED pidfile
       ELSE /\ chk' = [chk EXCEPT ![p].pc = "open_w"]
            /\ pidfile' = Absent

\* open(pidfile, 'w'): the file is created, or emptied
ChkOpenW(p) ==
    /\ PidFrame
    /\ chk[p].pc = "open_w"
    /\ chk' = [chk EXCEPT ![p].pc = "write"]
    /\ pidfile' = ""

\* .write(pid); return False
ChkWrite(p) ==
    /\ PidFrame
    /\ chk[p].pc = "write"
    /\ chk' = [chk EXCEPT ![p].pc = "done", ![p].result = "false"]
    /\ pidfile' = ToString(PidOf(p))

\* plugin processes started at about the same time on one PID file
PidInit ==
    /\ InitSched
    /\ InitFiles
    /\ SERVICE_MODE = FALSE
    /\ call = [fn |-> "none"]
    /\ ret = Pending
    /\ logdir = FALSE
    /\ pidfile \in InitialPidfiles
    /\ chk = [p \in Checkers |-> IdleCheck]

PidNext ==
    \E p \in Checkers :
        \/ ChkCall(p)
        \/ ChkIsFile(p)
        \/ ChkRead(p)
        \/ ChkUnlink(p)
        \/ ChkOpenW(p)
        \/ ChkWrite(p)

PidSpec == PidInit /\ [][PidNext]_vars

(* ------------------------------ write_dyn_log -------------------------- *)

\* the write_dyn_log calls of one behaviour
MaxDynCalls == 1

\* the field descriptors of a reading: a bare string, typed descriptors
\* spelled in different cases, a descriptor with a type that is none, and an
\* object that is neither a string nor a dict
DynFields ==
    {[kind |-> "str", text |-> "plain"],
     [kind |-> "dict", name |-> "counter", type |-> <<"i", "n", "t">>,
      units |-> "kWh"],
     [kind |-> "dict", name |-> "gate open", type |-> <<"B", "o", "o", "l">>,
      units |-> "absent"],
     [kind |-> "dict", name |-> "counter", type |-> <<"t", "e", "x", "t">>,
      units |-> "None"],
     [kind |-> "other"]}

\* the values of a reading, as the characters of str(value)
DynValues == {<<"1">>, <<"a", "\n", "\\">>}

\* the source argument: a string, a list of strings, or an object that is
\* neither (text is its str())
DynSources ==
    {[kind |-> "str", text |-> <<"/", "d", "e", "v", "/", "x">>],
     [kind |-> "list", items |-> << <<"/", "/", "x">> >>],
     [kind |-> "other", text |-> <<"x">>]}

\* value.replace("\n", " ") and value.replace("\\", r"\\") after str(value)
clean_and_stringify_value(value) ==
    LET spaced == [i \in 1..Len(value) |->
                     IF value[i] = "\n" THEN " " ELSE value[i]]
    IN  [i \in 1..Len(spaced) |->
           IF spaced[i] = "\\" THEN "\\\\" ELSE spaced[i]]

\* source.startswith(prefix)
StartsWith(source, prefix) ==
    Len(source) >= Len(prefix) /\ SubSeq(source, 1, Len(prefix)) = prefix

\* while source.startswith('/'): source = source[1:]
RECURSIVE StripSlashes(_)
StripSlashes(source) ==
    IF StartsWith(source, <<"/">>) THEN StripSlashes(Tail(source))
    ELSE source

\* clean_source_name(source)
clean_source_name(source) ==
    StripSlashes(IF StartsWith(source, <<"/", "d", "e", "v">>)
                 THEN SubSeq(source, 5, Len(source))
                 ELSE source)

\* get_source_name taking the str() of an object that is no list
get_source_name_any(source) ==
    IF source.kind = "str" THEN Returned(<<clean_source_name(source.text)>>)
    ELSE IF source.kind # "list"
    THEN Returned(<<clean_source_name(source.text)>>)
    ELSE Returned([i \in 1..Len(source.items) |->
                     clean_source_name(source.items[i])])

\* get_source_name(source): the parts of the directory path
get_source_name(source) ==
    IF source.kind = "str" THEN Returned(<<clean_source_name(source.text)>>)
    ELSE IF source.kind # "list" THEN Raised("Unknown source format")
    ELSE Returned([i \in 1..Len(source.items) |->
                     clean_source_name(source.items[i])])

\* the one log target of the model
TargetSource == << <<"x">> >>

\* write_dyn_log(output_directory, table, source, [(field, value)],
\* changes_only): the header is rendered, then the data line, then
\* get_log_directory names and makes the directory, then write_log runs
WriteDynLog(field, value, source, changes_only) ==
    /\ UNCHANGED schedVars
    /\ call.fn \in {"none", "write_dyn_log"}
    /\ now < MaxDynCalls
    /\ call' = [fn |-> "write_dyn_log", field |-> field, value |-> value,
                source |-> source, changes_only |-> changes_only,
                logdir |-> logdir]
    /\ LET rendered == process_header_field(field)
           name == get_source_name(source)
       IN  IF rendered.state = "raised" \/ name.state = "raised"
           THEN /\ ret' = IF rendered.state = "raised" THEN rendered ELSE name
                /\ pre' = [latest |-> latest, archive |-> archive,
                           archive1 |-> archive1, cacheLast |-> cacheLast]
                /\ UNCHANGED <<cacheHeader, cacheLast, latest, archive,
                               archive1, calls, lastHdr, logdir>>
           ELSE /\ name.value = TargetSource
                /\ logdir' = TRUE
                /\ WriteLogBody(HeaderLine(rendered.value),
                                DataLine(get_datetime_str(day, now),
                                         clean_and_stringify_value(value)),
                                rendered.value, value, changes_only)
                /\ ret' = IF calls'[Len(calls')].result = "raised"
                          THEN Raised("TypeError") ELSE Returned(None)
    /\ now' = now + 1
    /\ UNCHANGED <<SERVICE_MODE, day, stepVars, pidfile, chk>>

\* the header lines and a data line an earlier run can have left
DynHeaderLines ==
    {HeaderLine(process_header_field(f).value) :
        f \in {g \in DynFields : process_header_field(g).state = "returned"}}

EarlierDataLine == DataLine(get_datetime_str(1, 0), <<"1">>)

\* what a file of the target can hold when the plugin starts: nothing
\* (absent), no line, or a header and a data line
EarlierFiles ==
    {NoFile, File(<<>>)}
        \cup {File(<<hl, EarlierDataLine>>) : hl \in DynHeaderLines}

\* a plugin process starts: SERVICE_CACHE is empty, the target directory may
\* exist, and in it today's archive and latest.csv, each or both
DynLogInit ==
    /\ InitSched
    /\ SERVICE_MODE \in BOOLEAN
    /\ cacheHeader = None
    /\ cacheLast = None
    /\ day = 1
    /\ now = 0
    /\ logdir \in BOOLEAN
    /\ latest \in EarlierFiles
    /\ archive \in [Days -> EarlierFiles]
    /\ \A d \in Days : d # 1 => archive[d] = NoFile
    /\ ~logdir => (~latest.exists /\ ~archive[1].exists)
    /\ archive1 = [d \in Days |-> NoFile]
    /\ calls = <<>>
    /\ pre = [latest |-> latest, archive |-> archive, archive1 |-> archive1,
              cacheLast |-> None]
    /\ lastHdr = None
    /\ frame = [p \in Procs |-> IdleFrame]
    /\ hdrOf = {}
    /\ recovered = FALSE
    /\ call = [fn |-> "none"]
    /\ ret = Pending
    /\ pidfile = Absent
    /\ chk = [p \in Checkers |-> IdleCheck]

DynLogNext ==
    \E field \in DynFields, value \in DynValues, source \in DynSources,
       changes_only \in BOOLEAN :
        WriteDynLog(field, value, source, changes_only)

DynLogSpec == DynLogInit /\ [][DynLogNext]_vars

(* --------------------------- parse_service_file ------------------------ *)

\* the rows of a command file
MaxRows == 2

\* a value of a csv.DictReader row: the text of the column, or None when the
\* row has no such column
NoCell == [none |-> TRUE, text |-> <<>>]
Cell(text) == [none |-> FALSE, text |-> text]

\* the paths open() can read
Readable == {"ok.conf"}

\* file_handle.readlines()
ReadLines(path) == <<"lines of", path>>

Rows ==
    [frequency : {NoCell, Cell(<<"2">>), Cell(<<"x">>)},
     flags : {NoCell, Cell(<<>>), Cell(<<"verbose", ":">>)},
     config_file : {NoCell, Cell(<<"ok.conf">>), Cell(<<"gone.conf">>)},
     _note : {Cell(<<"n">>)}]

RowLists == UNION {[1..n -> Rows] : n \in 0..MaxRows}

\* the file_args argument: left out, or a list of column names
Omitted == [given |-> FALSE, names |-> <<>>]
Given(names) == [given |-> TRUE, names |-> names]
FileArgs == {Omitted, Given(<<>>), Given(<<"config_file">>)}

\* the two definitions of parse_service_file: service.py and __init__.py
Versions == {"service", "init"}

\* the value of file_args in the body: the default of the definition when
\* the argument is left out ([] in service.py, None in __init__.py)
EffectiveFileArgs(version, file_args) ==
    IF file_args.given THEN [none |-> FALSE, names |-> file_args.names]
    ELSE IF version = "service" THEN [none |-> FALSE, names |-> <<>>]
    ELSE [none |-> TRUE, names |-> <<>>]

\* the body of the try block for one row: whether it ran to the append, and
\* the entry appended
ParseRow(version, row, fa) ==
    LET frequencyOk == ~row.frequency.none /\ IsNumber(row.frequency.text)
        flagsOk == ~row.flags.none
        pieces == IF flagsOk THEN Split(row.flags.text, ":") ELSE <<>>
        flagSet == {pieces[i][1] : i \in {j \in 1..Len(pieces) :
                                          pieces[j] # <<>>}}
        filesOk ==
            /\ ~fa.none
            /\ \A i \in 1..Len(fa.names) :
                  /\ fa.names[i] \in {"config_file"}
                  /\ ~row[fa.names[i]].none
                  /\ row[fa.names[i]].text[1] \in Readable
        reads(k) == \E i \in 1..Len(fa.names) : fa.names[i] = k
        kept == IF version = "service" THEN {"config_file"}
                ELSE {"config_file", "_note"}
        kwargs == [k \in kept |->
                     IF reads(k) THEN ReadLines(row[k].text[1])
                     ELSE row[k].text]
    IN  IF frequencyOk /\ flagsOk /\ filesOk
        THEN [ok |-> TRUE,
              entry |-> [frequency |-> ToInt(row.frequency.text),
                         kwargs |-> kwargs, flags |-> flagSet]]
        ELSE [ok |-> FALSE, entry |-> <<>>]

\* the for loop over the rows: commands and the line numbers reported
RECURSIVE ParseRows(_, _, _, _, _)
ParseRows(version, rows, fa, line_number, sofar) ==
    IF Len(rows) = 0 THEN sofar
    ELSE LET r == ParseRow(version, Head(rows), fa)
         IN  ParseRows(version, Tail(rows), fa, line_number + 1,
                       IF r.ok
                       THEN [sofar EXCEPT !.commands = Append(@, r.entry)]
                       ELSE [sofar EXCEPT
                               !.reports = Append(@, line_number + 1)])

\* parse_service_file(command_file[, file_args])
parse_service_file(version, rows, file_args) ==
    Returned(ParseRows(version, rows, EffectiveFileArgs(version, file_args),
                       1, [commands |-> <<>>, reports |-> <<>>]))

ServiceFileCalls ==
    [fn : {"parse_service_file"}, version : Versions, rows : RowLists,
     file_args : FileArgs]

ParseServiceFile ==
    /\ LibFrame
    /\ call.fn = "parse_service_file"
    /\ ret = Pending
    /\ ret' = parse_service_file(call.version, call.rows, call.file_args)
    /\ UNCHANGED <<call, logdir, pidfile, chk>>

(* ------------------------- functions called alone ---------------------- *)

FunctionInit ==
    /\ InitSched
    /\ InitFiles
    /\ SERVICE_MODE = FALSE
    /\ call \in ConvertCalls \cup AddressCalls \cup HeaderFieldCalls
                 \cup ServiceFileCalls
    /\ ret = Pending
    /\ logdir = FALSE
    /\ pidfile = Absent
    /\ chk = [p \in Checkers |-> IdleCheck]

FunctionNext ==
    \/ ConvertWords
    \/ ConvertInt32
    \/ ParseAddressList
    \/ ProcessHeaderField
    \/ ParseServiceFile

FunctionSpec == FunctionInit /\ [][FunctionNext]_vars

(* ------------------------------ C1 ------------------------------------- *)

\* C1: a tick whose callback raised an ordinary exception never makes the
\* task process terminate: a task whose last tick ended with an error is
\* dead only if its stop was requested.
C1_TaskSurvivesCallbackError ==
    \A t \in Tasks :
        (lastOutcome[t] = "error" /\ lastDur[t] < Interval(t) /\ pc[t] = "dead")
            => stopped[t]

(* ------------------------------ C2 ------------------------------------- *)

C2_Safety ==
    \A t \in Tasks :
        /\ pc[t] = "running" =>
              /\ elapsed[t] <= Interval(t)
              /\ alarmLeft[t] = Interval(t) - elapsed[t]
        /\ reports[t] <= 1
        /\ (lastOutcome[t] = "timeout" /\ pc[t] = "wait") =>
              reports[t] = 1 /\ alarmLeft[t] = Disarmed
        /\ (lastOutcome[t] = "timeout" /\ pc[t] = "dead") => stopped[t]

\* C2: a callback that has not returned when `interval` has elapsed since
\* the tick's start is aborted by the alarm (no callback runs past its
\* interval), the abort is reported exactly once for that tick, and unless
\* a stop is requested the task later starts another tick.  Checked for the
\* runs in which no signal arrives (QuietFairSpec) and, with the stop
\* request as the alternative, for all runs (FairSpec).
C2_TimeoutAbortedReportedOnceAndTaskContinues ==
    /\ []C2_Safety
    /\ \A t \in Tasks :
          (lastOutcome[t] = "timeout" /\ pc[t] = "wait")
              ~> (pc[t] = "running" \/ stopped[t])

\* a tick that follows a timed-out tick of the same task is in progress
C2_Witness ==
    \E t \in Tasks : lastOutcome[t] = "timeout" /\ pc[t] = "running"
                      /\ ~stopped[t]

(* ------------------------------ C3 ------------------------------------- *)

\* C3: a stop() call is over within the grace period plus a margin of one
\* time unit, however long the tick in flight still runs.
C3_StopReturnsWithinGracePlusMargin ==
    (hActive /\ hPhase \in {"join", "terminate", "join2"})
        => stopElapsed <= Grace + 1

(* ------------------------------ C4 ------------------------------------- *)

\* C4: once term_handler has been entered, no task starts a new tick; in
\* particular none starts one while the stop() of a task earlier in the
\* cleanup list has been waiting for that task to exit.
C4_NoNewTickAfterStopRequest ==
    [][(hActive /\ hPhase \in {"join", "terminate", "join2"}
               /\ stopElapsed >= 1) =>
         \A t \in Tasks : ~(pc[t] = "wait" /\ pc'[t] = "running")]_vars

(* ------------------------------ C5 ------------------------------------- *)

\* C5: after a terminate or interrupt signal has been handled, no task
\* launched by this run is ticking.
C5_NoTaskTickingAfterSignalHandled ==
    (handled /\ ~hActive) => \A t \in Tasks : pc[t] # "running"
(* ------------------------------ C6 ------------------------------------- *)

\* C6: whenever latest.csv exists, its first line is a header line and is
\* the header rendered for the most recent data line appended to it.
C6_LatestHeaderMatchesLastAppend ==
    latest.exists =>
        /\ Len(latest.lines) >= 1
        /\ IsHeaderLine(latest.lines[1])
        /\ latest.lines[1] = lastHdr

(* ------------------------------ C7 ------------------------------------- *)

LastCall == calls[Len(calls)]

\* C7: a reading written while today's archive and latest.csv both exist,
\* with a header other than the one stored in latest.csv, leaves the previous
\* archive content in <today>.csv.1 and makes <today>.csv and latest.csv
\* consist of the new header line and the new data line.
C7_HeaderChangeRotates ==
    (/\ Len(calls) >= 1
     /\ LastCall.result = "written"
     /\ pre.archive[LastCall.day].exists
     /\ pre.latest.exists
     /\ ReadLine(pre.latest) # LastCall.header_line)
    => /\ archive1[LastCall.day] = pre.archive[LastCall.day]
       /\ archive[LastCall.day] =
             File(<<LastCall.header_line, LastCall.data_line>>)
       /\ latest = File(<<LastCall.header_line, LastCall.data_line>>)

(* ------------------------------ C8 ------------------------------------- *)

\* every call so far had the schema and the day of the first one
OneSchemaOneDay ==
    /\ Len(calls) >= 1
    /\ \A i \in 1..Len(calls) : /\ calls[i].h = calls[1].h
                                /\ calls[i].day = calls[1].day

DataLinesOf(f) == {i \in 1..Len(f.lines) : ~IsHeaderLine(f.lines[i])}

C8_Case ==
    /\ OneSchemaOneDay
    /\ \A i \in 1..Len(calls) : ~calls[i].co

C8_Expected ==
    File(<<HeaderLine(calls[1].h)>>
         \o [i \in 1..Len(calls) |-> calls[i].data_line])

\* C8: after n >= 1 writes of one schema with changes_only off to a fresh
\* target within one day, <today>.csv and latest.csv each consist of one
\* header line followed by the n data lines in write order.
C8_OneHeaderThenAllDataLines ==
    C8_Case => /\ archive[calls[1].day] = C8_Expected
               /\ latest = C8_Expected

\* three such writes have been made by a service-mode writer
C8_Witness ==
    C8_Case /\ Len(calls) >= 3 /\ SERVICE_MODE /\ cacheHeader # None
       /\ Len(latest.lines) = 4

(* ------------------------------ C9 ------------------------------------- *)

C9_Case ==
    /\ OneSchemaOneDay
    /\ \A i \in 1..Len(calls) : calls[i].co

\* the readings whose value differs from the reading just before
ChangedReadings == {i \in 2..Len(calls) : calls[i].v # calls[i - 1].v}

\* C9: with changes_only set, same-schema readings written to a fresh
\* target in one day leave as many data lines in latest.csv and in the
\* archive as there are readings that differ from the reading just before
\* them, plus one for the first reading.
C9_DataLinesCountChanges ==
    C9_Case =>
        /\ Cardinality(DataLinesOf(latest)) = 1 + Cardinality(ChangedReadings)
        /\ Cardinality(DataLinesOf(archive[calls[1].day]))
              = 1 + Cardinality(ChangedReadings)

\* a repeated reading was skipped and a later changed reading was written
C9_Witness ==
    /\ C9_Case
    /\ \E i \in 2..Len(calls) :
          /\ calls[i].result = "skipped"
          /\ \E j \in (i + 1)..Len(calls) : calls[j].result = "written"
    /\ Cardinality(DataLinesOf(latest)) = 2

(* ------------------------------ C10 ------------------------------------ *)

\* C10: a write skipped because the data is unchanged leaves every file as
\* it was before the call.
C10_SkippedWriteTouchesNoFile ==
    (Len(calls) >= 1 /\ LastCall.result = "skipped")
        => /\ latest = pre.latest
           /\ archive = pre.archive
           /\ archive1 = pre.archive1
(* ------------------------------ C11 ------------------------------------ *)

\* C11: a write_log call made while today's archive file does not exist
\* leaves latest.csv consisting of one fresh header line followed by the
\* new data line, with changes_only set or not, in service mode or not.
\* Stated for the first call of a day: nothing has been rotated yet.
C11_NewDayRebuildsLatest ==
    (/\ Len(calls) >= 1
     /\ ~pre.archive[LastCall.day].exists
     /\ ~pre.archive1[LastCall.day].exists)
        => latest = File(<<LastCall.header_line, LastCall.data_line>>)

(* ------------------------------ C12 ------------------------------------ *)

\* the lines of <d>.csv and of <d>.csv.1
Recorded(d) ==
    {archive[d].lines[i] : i \in 1..Len(archive[d].lines)}
        \cup {archive1[d].lines[i] : i \in 1..Len(archive1[d].lines)}

\* C12: every data line ever appended to a dated archive file is still in
\* that file or in its .1 copy, whatever was written to the target later.
C12_NoRecordedLineLost ==
    \A i \in 1..Len(calls) :
        calls[i].result = "written" => calls[i].data_line \in Recorded(calls[i].day)

(* ------------------------------ C18 ------------------------------------ *)

\* the last n lines of f
LastLines(f, n) ==
    IF Len(f.lines) < n THEN <<>>
    ELSE SubSeq(f.lines, Len(f.lines) - n + 1, Len(f.lines))

C13_LatestConsistentAfterCrash ==
    recovered => /\ latest.exists
           /\ Len(latest.lines) >= 1
           /\ IsHeaderLine(latest.lines[1])
           /\ \A i \in 2..Len(latest.lines) :
                 <<latest.lines[i], latest.lines[1]>> \in hdrOf

(* ------------------------------ C14 ------------------------------------ *)

\* two processes have each made one write_log call for the same schema on
\* the same day to a fresh target, both calls have written and returned
C14_Case ==
    /\ \A p \in {1, 2} : /\ frame[p].pc = "idle"
                         /\ frame[p].count = 1
                         /\ ~frame[p].crashed
                         /\ frame[p].result = "written"
    /\ frame[1].header_line = frame[2].header_line
    /\ frame[1].day = frame[2].day
    /\ \A p \in Procs \ {1, 2} : frame[p].count = 0

HeaderLinesOf(f) == {i \in 1..Len(f.lines) : IsHeaderLine(f.lines[i])}

\* C14: however the steps of the two calls interleave, the archive has
\* exactly one header line, its first line, latest.csv begins with a header
\* line, and both data lines are in the archive.
C14_ConcurrentWritersKeepOneHeader ==
    C14_Case =>
        LET a == archive[frame[1].day]
        IN  /\ HeaderLinesOf(a) = {1}
            /\ Len(latest.lines) >= 1 /\ IsHeaderLine(latest.lines[1])
            /\ \A p \in {1, 2} :
                  \E i \in 1..Len(a.lines) : a.lines[i] = frame[p].data_line
(* ------------------------------ C16 ------------------------------------ *)

Max0(n) == IF n > 0 THEN n ELSE 0

\* C16: when a tick ends, by return, error or timeout, the wait that follows
\* is the interval minus the duration of that tick, zero if that is not
\* positive.
C16_WaitIsIntervalMinusOwnDuration ==
    [][\A t \in Tasks :
          (pc[t] = "running" /\ pc'[t] = "wait")
              => waitLeft'[t] = Max0(Interval(t) - elapsed[t])]_vars

(* ------------------------------ C15 ------------------------------------ *)

\* C15: the time from the start of a tick to the start of the next tick of
\* the same task is at most the interval plus the amount by which the
\* earlier tick overran the interval, whatever the earlier tick's outcome.
C15_SpacingAtMostIntervalPlusOverrun ==
    [][\A t \in Tasks :
          (pc[t] = "wait" /\ pc'[t] = "running" /\ lastOutcome[t] # "none")
              => sinceStart[t] <= Interval(t) + Max0(lastDur[t] - Interval(t))]_vars

(* ------------------------------ C17 ------------------------------------ *)

\* a tick of task t starts only out of a completed wait that followed the
\* end of the tick before it
C17_Step(t) ==
    (pc'[t] = "running" /\ pc[t] # "running")
        => /\ pc[t] = "wait" /\ waitLeft[t] = 0 /\ ~stopped[t]
           /\ lastOutcome[t] # "none" =>
                 sinceStart[t] = lastDur[t] + NextWait(t, time_taken[t])

\* C17: the ticks of a task never overlap: the callback is invoked only
\* after the invocation before it has returned, raised or been aborted and
\* the wait that follows it has run; a failed tick is not retried before
\* that.
C17_TicksAreSequential ==
    /\ [](\A t \in Tasks : pc[t] = "running" =>
              /\ sinceStart[t] = elapsed[t]
              /\ elapsed[t] <= Interval(t))
    /\ [][\A t \in Tasks : C17_Step(t)]_vars

\* a tick that failed has been followed by the next tick of the task
C17_Witness ==
    \E t \in Tasks : /\ pc[t] = "running"
                     /\ lastOutcome[t] \in {"error", "timeout"}
                     /\ elapsed[t] >= 1

(* ------------------------------ C19 ------------------------------------ *)

\* C19: term_handler called again after signal.pause() has returned finds
\* every task stopped, goes through the stop functions without waiting and
\* without terminating anything, and returns with every task stopped.
C19_SecondShutdownIsNoOp ==
    /\ mainPc = "final" =>
          /\ hActive
          /\ \A t \in 1..nCommands : pc[t] = "dead" /\ stopped[t]
          /\ hPhase \in {"call", "join"}
          /\ stopElapsed = 0
          /\ ENABLED (StopSet \/ JoinReturn \/ HandlerReturn)
    /\ mainPc = "returned" =>
          /\ ~hActive
          /\ \A t \in 1..nCommands : pc[t] = "dead" /\ stopped[t]

\* run_click_command_as_a_service has returned after the second call
C19_Witness ==
    mainPc = "returned" /\ handled /\ Len(cleanup) = NumTasks

(* ------------------------------ C20 ------------------------------------ *)

\* C20: called with no commands, run_click_command_as_a_service raises; it
\* launches no task process and installs no signal handler.
C20_EmptyTaskSetRejected ==
    nCommands = 0 =>
        /\ mainPc \in {"entry", "raised"}
        /\ ~installed
        /\ cleanup = <<>>
        /\ \A t \in Tasks : pc[t] = "none"

\* the call with no commands has raised
C20_Witness ==
    nCommands = 0 /\ mainPc = "raised" /\ SERVICE_MODE
(* ------------------------------ C30 ------------------------------------ *)

\* C30: convert_words_to_uint and convert_int32 return
\* (high * 65536 + (low mod 65536), True) for every high word in 0..65535
\* and low word in -32768..65535, a value in 0..2^32-1 (here as its two
\* digits to the base 2^16).
C30_WordsCombineToUint32 ==
    (call.fn \in {"convert_words_to_uint", "convert_int32"}
        /\ ret.state = "returned")
    => /\ ret.value = <<<<call.high_word, call.low_word % 65536>>, TRUE>>
       /\ ret.value[1][1] \in 0..65535
       /\ ret.value[1][2] \in 0..65535
(* ------------------------------ C24 ------------------------------------ *)

\* the elements of an address string, and the hyphens in one of them
ElementsOf(addrs) == Split(addrs, ",")
Hyphens(e) == Cardinality({i \in 1..Len(e) : e[i] = "-"})

\* the part of e before its hyphen and the part after it
Before(e) == SubSeq(e, 1, (CHOOSE i \in 1..Len(e) : e[i] = "-") - 1)
After(e) == SubSeq(e, (CHOOSE i \in 1..Len(e) : e[i] = "-") + 1, Len(e))

\* e is a number, or a range a-b of two numbers
WellFormed(e) ==
    \/ Hyphens(e) = 0 /\ IsNumber(e)
    \/ Hyphens(e) = 1 /\ IsNumber(Before(e)) /\ IsNumber(After(e))

\* the integers an element stands for
Meaning(e) ==
    IF Hyphens(e) = 0 THEN {ToInt(e)} ELSE ToInt(Before(e))..ToInt(After(e))

\* out lists, element after element in input order, the integers of each
\* element in increasing order: position k of element i is at Offset + k
RECURSIVE Offset(_, _)
Offset(es, i) ==
    IF i = 1 THEN 0
    ELSE Offset(es, i - 1) + Cardinality(Meaning(es[i - 1]))

Lists(out, es) ==
    /\ Len(out) = Offset(es, Len(es) + 1)
    /\ \A i \in 1..Len(es) :
          \A n \in Meaning(es[i]) :
              out[Offset(es, i) + (n - ToInt(IF Hyphens(es[i]) = 0 THEN es[i]
                                           ELSE Before(es[i]))) + 1] = n

\* C24: parse_address_list yields, in input order, each single number and
\* every integer of each inclusive range of the address string, and raises
\* the format error at an element with more than one hyphen.
C24_AddressListExpands ==
    (call.fn = "parse_address_list" /\ ret.state # "pending") =>
        LET es == ElementsOf(call.addrs)
        IN  /\ (\A i \in 1..Len(es) : WellFormed(es[i]))
                  => ret.state = "returned" /\ Lists(ret.value, es)
            /\ \A i \in 1..Len(es) :
                  (Hyphens(es[i]) > 1 /\ \A j \in 1..(i - 1) : WellFormed(es[j]))
                      => ret = Raised("format error")

\* a number followed by a range has been expanded
C24_Witness ==
    /\ call.fn = "parse_address_list"
    /\ call.addrs = <<"2", ",", "1", "-", "2">>
    /\ ret = Returned(<<2, 1, 2>>)
(* ------------------------------ C22 ------------------------------------ *)

\* the declared types, in lower case, and the canonical type each stands for
Synonyms ==
    {<<<<"i", "n", "t">>, "integer">>,
     <<<<"i", "n", "t", "e", "g", "e", "r">>, "integer">>,
     <<<<"f", "l", "o", "a", "t">>, "decimal">>,
     <<<<"d", "e", "c", "i", "m", "a", "l">>, "decimal">>,
     <<<<"r", "e", "a", "l">>, "decimal">>,
     <<<<"f", "r", "e", "a", "l">>, "decimal">>,
     <<<<"d", "o", "u", "b", "l", "e">>, "decimal">>,
     <<<<"b", "o", "o", "l">>, "bool">>,
     <<<<"b", "o", "o", "l", "e", "a", "n">>, "bool">>,
     <<<<"d", "a", "t", "e">>, "date">>,
     <<<<"d", "i", "s", "c", "a", "r", "d">>, "discard">>,
     <<<<"s", "t", "r", "i", "n", "g">>, "keyword">>,
     <<<<"k", "e", "y", "w", "o", "r", "d">>, "keyword">>}

\* two spellings are the same but for the case of their letters
SameLetters(a, b) ==
    /\ Len(a) = Len(b)
    /\ \A i \in 1..Len(a) :
          \/ a[i] = b[i]
          \/ a[i] \in DOMAIN LowerOf /\ LowerOf[a[i]] = b[i]
          \/ b[i] \in DOMAIN LowerOf /\ LowerOf[b[i]] = a[i]

\* the canonical types a declared type stands for, upper and lower case
\* letters taken as the same
CanonOf(declared) ==
    {p[2] : p \in {q \in Synonyms : SameLetters(declared, q[1])}}

\* C22: a typed descriptor is rendered as name(T), or name(T:units) when it
\* has units, T the canonical type of the declared type whatever its case;
\* a bare string is returned as it is.
C22_HeaderFieldRendering ==
    (call.fn = "process_header_field" /\ ret.state # "pending") =>
        LET f == call.field
        IN  /\ f.kind = "str" => ret = Returned(<<f.text>>)
            /\ (f.kind = "dict" /\ CanonOf(f.type) # {}) =>
                  \E T \in CanonOf(f.type) :
                      ret = IF f.units \in {"absent", "None"}
                            THEN Returned(<<f.name, "(", T, ")">>)
                            ELSE Returned(<<f.name, "(", T, ":", f.units, ")">>)

\* a type declared in upper case has been rendered with its units
C22_Witness ==
    /\ call.fn = "process_header_field"
    /\ call.field.kind = "dict"
    /\ call.field.type = <<"F", "R", "E", "A", "L">>
    /\ ret = Returned(<<call.field.name, "(", "decimal", ":", "kWh", ")">>)
(* ------------------------------ C25 ------------------------------------ *)

\* C25: while a task waits on the stop event between two ticks, no alarm
\* armed for an earlier tick is pending.
C25_NoAlarmPendingWhileWaiting ==
    \A t \in Tasks : pc[t] = "wait" => alarmLeft[t] = Disarmed
(* ------------------------------ C26 ------------------------------------ *)

\* C26: with one writer and a fresh target, after every write that was not
\* skipped latest.csv holds what the archive of the day of the write holds.
C26_LatestMirrorsTodaysArchive ==
    (Len(calls) > 0 /\ LastCall.result = "written") =>
        latest = archive[LastCall.day]

\* a write on the second day, after a rotation on that day, has left both
\* files with the same two lines
C26_Witness ==
    /\ Len(calls) > 0
    /\ LastCall.result = "written"
    /\ LastCall.day = MaxDay
    /\ archive1[LastCall.day].exists
    /\ latest = archive[LastCall.day]
    /\ latest = File(<<LastCall.header_line, LastCall.data_line>>)
(* ------------------------------ C27 ------------------------------------ *)

\* C27: in service mode the header the cache holds is the first line of
\* latest.csv after every write, none of them skipped, a write on a new day
\* with a new schema included.
C27_CachedHeaderIsFirstLineOfLatest ==
    (/\ SERVICE_MODE
     /\ cacheHeader # None
     /\ \A i \in 1..Len(calls) : calls[i].result = "written") =>
        cacheHeader = ReadLine(latest)
(* ------------------------------ C28 ------------------------------------ *)

\* C28: in service mode with changes_only, a write that ends with a
\* filesystem error leaves the cached last data line as it was before the
\* call.
C28_FailedWriteLeavesCacheUnchanged ==
    (/\ Len(calls) > 0
     /\ SERVICE_MODE
     /\ LastCall.co
     /\ LastCall.result = "ioerror") =>
        cacheLast = pre.cacheLast
(* ------------------------------ C29 ------------------------------------ *)

\* C29: of the processes that call check_pidfile on one PID file, none of
\* them having exited, at most one is answered False.
C29_AtMostOneInstanceAllowed ==
    Cardinality({p \in Checkers : chk[p].result = "false"}) <= 1
(* ------------------------------ C23 ------------------------------------ *)

\* a row that must yield a task: an integer frequency, a flags column, and
\* a readable file in every column named by file_args
ValidRow(row, file_args) ==
    /\ ~row.frequency.none
    /\ row.frequency.text = <<"2">>
    /\ ~row.flags.none
    /\ \A i \in 1..Len(file_args.names) :
          /\ ~row[file_args.names[i]].none
          /\ row[file_args.names[i]].text = <<"ok.conf">>

\* the positions of the valid rows, in input order
ValidPositions(rows, file_args) ==
    {i \in 1..Len(rows) : ValidRow(rows[i], file_args)}

\* how many valid rows come in the first i rows of the input
ValidUpTo(rows, file_args, i) ==
    Cardinality({j \in ValidPositions(rows, file_args) : j <= i})

\* C23: parse_service_file returns one entry for every valid row, in input
\* order, and reports every other row by its line; also when file_args is
\* left out.
C23_ValidRowsParsedInvalidSkipped ==
    (call.fn = "parse_service_file" /\ ret.state # "pending") =>
        LET rows == call.rows
            valid == ValidPositions(rows, call.file_args)
            out == ret.value
        IN  /\ ret.state = "returned"
            /\ Len(out.commands) = Cardinality(valid)
            /\ \A i \in valid :
                  LET e == out.commands[ValidUpTo(rows, call.file_args, i)]
                  IN  /\ e.frequency = 2
                      /\ e.flags = IF rows[i].flags.text = <<>> THEN {}
                                   ELSE {"verbose"}
            /\ Len(out.reports) = Len(rows) - Cardinality(valid)
            /\ \A i \in 1..Len(rows) :
                  i \notin valid =>
                      out.reports[i - ValidUpTo(rows, call.file_args, i)]
                          = i + 1
(* ------------------------------ C21 ------------------------------------ *)

\* the input keeps the contract of write_dyn_log: the field is a string or
\* a descriptor with a known type, the source a string or a list
ValidInput(c) ==
    /\ \/ c.field.kind = "str"
       \/ c.field.kind = "dict" /\ CanonOf(c.field.type) # {}
    /\ c.source.kind \in {"str", "list"}

\* C21: write_dyn_log raises only when the input breaks the contract, and
\* then before the directory is made and before any file is touched; with
\* valid input it returns whichever of today's archive and latest.csv
\* exist.
C21_RaisesOnlyForContractViolations ==
    (call.fn = "write_dyn_log" /\ ret.state # "pending") =>
        /\ ValidInput(call) <=> ret.state = "returned"
        /\ ~ValidInput(call) =>
              /\ ret.error \in {"Unknown field type", "Unknown header value",
                                "Unknown source format"}
              /\ logdir = call.logdir
              /\ latest = pre.latest
              /\ archive = pre.archive
              /\ archive1 = pre.archive1

\* a descriptor with an unknown type has been refused: no directory has
\* been made
C21_Witness ==
    /\ call.fn = "write_dyn_log"
    /\ call.field.kind = "dict"
    /\ call.source.kind = "list"
    /\ ret = Raised("Unknown field type")
    /\ ~logdir
    /\ ~latest.exists
=============================================================================
